---- MODULE Spec2Model ----
(***************************************************************************)
(* OnePercent (src/OnePercent_v1.py): the per-day position state machine   *)
(* of run_strategy.  One action per branch of the loop body; the input     *)
(* frame is the calendar index_list plus the TQQQ Open/Close cells, which  *)
(* are materialised when the code reads them: a cell that no branch has    *)
(* read is None in tqqq_open / tqqq_close and stands for every value the   *)
(* frame may hold there.                                                   *)
(*                                                                         *)
(* Dates are day ordinals counted from a Monday that opens ISO week 1 of   *)
(* year 0, so d % 7 is the weekday (0 = Monday).  Prices are whole numbers *)
(* below 300; on that domain the double-precision tests c >= e * 1.07 and  *)
(* c >= e * 1.081 agree with the integer tests used here.  Weights 0.0 and *)
(* 1.0 are written 0 and 1.                                                *)
(***************************************************************************)
EXTENDS Integers, Sequences, FiniteSets, TLC

VARIABLES
    pc,                      \* position in run_strategy
    columns,                 \* the (field, ticker) columns present in data
    index_list,              \* data.index.tolist()
    tqqq_open,               \* data[("Open","TQQQ")], cells read so far
    tqqq_close,              \* data[("Close","TQQQ")], cells read so far
    i,                       \* loop index (0-based, as in the code)
    prev_date,
    today_close,             \* the local of line 96
    allocation,              \* row i of the frame is allocation[i + 1]
    error,                   \* the raised KeyError's (field, ticker), or None
    in_position,
    entry_price,
    entry_date,
    entry_week,
    exit_next_open_pending,
    exit_eod_pending,
    trace,                   \* per processed day: the state entering it and the branch taken
    left                     \* per returned call: the state the instance was left in

vars == <<pc, columns, index_list, tqqq_open, tqqq_close, i, prev_date,
          today_close, allocation, error, in_position, entry_price, entry_date,
          entry_week, exit_next_open_pending, exit_eod_pending, trace, left>>

inst == <<in_position, entry_price, entry_date, entry_week,
          exit_next_open_pending, exit_eod_pending>>

frame == <<columns, index_list>>

-----------------------------------------------------------------------------
(* Python's None and a present value *)
None == <<>>
Some(x) == <<x>>
Val(o) == o[1]

WARMUP == 20

(* Bounds of the explored inputs: days after the warm-up window in a       *)
(* calendar with free gaps, and in a calendar of business days.            *)
MaxDays == 4
MaxBusinessDays == 6
(* Bounds of the runs that reuse one instance: calls, and business days    *)
(* after the warm-up window in each call's calendar.                       *)
MaxRuns == 2
MaxReuseDays == 3
(* Bound of the prices the take-profit test is tried on *)
MaxPrice == 120
FirstDates == {336, 337}
Gaps == {1, 3, 7}
Opens == {0, 100}
Closes == {99, 100, 107, 109}

trading_assets == {"TQQQ", "SPY"}

RequiredColumns ==
    << <<"Open", "TQQQ">>, <<"Close", "TQQQ">>, <<"Open", "SPY">>, <<"Close", "SPY">> >>

Required == {RequiredColumns[k] : k \in 1..Len(RequiredColumns)}

-----------------------------------------------------------------------------
(* pd.Timestamp.isocalendar(): ISO weeks are the Monday-started blocks of   *)
(* seven days; years are taken 52 weeks long.                               *)
WeeksPerYear == 52

IsoCalendar(d) ==
    [year |-> (d \div 7) \div WeeksPerYear, week |-> ((d \div 7) % WeeksPerYear) + 1]

YearWeek(d) == <<IsoCalendar(d).year, IsoCalendar(d).week>>

(* a variant that compares the dates, not their ISO weeks *)
IsNewDate(prev, curr) ==
    IF prev = None THEN TRUE
    ELSE curr # Val(prev)

_is_new_week(prev, curr) ==
    IF prev = None THEN TRUE
    ELSE YearWeek(curr) # YearWeek(Val(prev))

(* a variant that does not take the end of the series for a week's end *)
LastDayBeforeKnownWeek(date, next_date) ==
    IF next_date = None THEN FALSE
    ELSE YearWeek(date) # YearWeek(Val(next_date))

_weekly_last_trading_day(date, next_date) ==
    IF next_date = None THEN TRUE
    ELSE YearWeek(date) # YearWeek(Val(next_date))

(* a variant without the 7.0% clause *)
TakeProfitAt81(close, entry) == close * 1000 >= entry * 1081

(* Type A, line 99 *)
TakeProfit(close, entry) ==
    \/ close * 1000 >= entry * 1081
    \/ close * 100 >= entry * 107

(* Type C, line 104 *)
BreakEven(close, entry) == close < entry

-----------------------------------------------------------------------------
(* The calendars explored: WARMUP business days from a first date, then    *)
(* either up to MaxDays further days at any of the Gaps or up to           *)
(* MaxBusinessDays further business days; and calendars that end inside    *)
(* the warm-up window.                                                     *)
NextBusinessDay(d) == IF d % 7 = 4 THEN d + 3 ELSE d + 1

RECURSIVE BusinessDays(_, _)
BusinessDays(first, len) ==
    IF len = 0 THEN <<>>
    ELSE <<first>> \o BusinessDays(NextBusinessDay(first), len - 1)

RECURSIVE Extend(_, _)
Extend(dates, gaps) ==
    IF gaps = <<>> THEN dates
    ELSE Extend(Append(dates, dates[Len(dates)] + Head(gaps)), Tail(gaps))

GapSeqs == UNION {[1..k -> Gaps] : k \in 0..MaxDays}

Calendars ==
    {Extend(BusinessDays(f, WARMUP), g) : f \in FirstDates, g \in GapSeqs}
        \cup {BusinessDays(f, WARMUP + k) : f \in FirstDates, k \in 0..MaxBusinessDays}
        \cup {<<>>} \cup {BusinessDays(f, WARMUP - 1) : f \in FirstDates}

n == Len(index_list)
date == index_list[i + 1]

ZeroRow == [a \in trading_assets |-> 0]

State ==
    [in_position |-> in_position, entry_price |-> entry_price,
     entry_date |-> entry_date, entry_week |-> entry_week,
     exit_next_open_pending |-> exit_next_open_pending,
     exit_eod_pending |-> exit_eod_pending]

-----------------------------------------------------------------------------
(* __init__, lines 29-37 *)
Init ==
    /\ pc = "idle"
    /\ columns = {}
    /\ index_list = <<>>
    /\ tqqq_open = <<>>
    /\ tqqq_close = <<>>
    /\ i = 0
    /\ prev_date = None
    /\ today_close = None
    /\ allocation = <<>>
    /\ error = None
    /\ in_position = FALSE
    /\ entry_price = None
    /\ entry_date = None
    /\ entry_week = None
    /\ exit_next_open_pending = FALSE
    /\ exit_eod_pending = FALSE
    /\ trace = <<>>
    /\ left = <<>>

(* run_strategy is called with a frame, lines 57-59 *)
run_strategy ==
    /\ pc = "idle"
    /\ \E cols \in SUBSET Required, cal \in Calendars :
          /\ columns' = cols
          /\ index_list' = cal
          /\ tqqq_open' = [k \in 1..Len(cal) |-> None]
          /\ tqqq_close' = [k \in 1..Len(cal) |-> None]
    /\ pc' = "validate"
    /\ UNCHANGED <<i, prev_date, today_close, allocation, error, trace, left>>
    /\ UNCHANGED inst

(* a variant that validates the traded instrument only *)
FirstMissingTraded(cols) ==
    LET missing == {k \in 1..2 : RequiredColumns[k] \notin cols}
    IN  IF missing = {} THEN None
        ELSE Some(RequiredColumns[CHOOSE k \in missing : \A m \in missing : k <= m])

(* lines 61-64: the first missing column, in the order of the two loops *)
FirstMissing(cols) ==
    LET missing == {k \in 1..Len(RequiredColumns) : RequiredColumns[k] \notin cols}
    IN  IF missing = {} THEN None
        ELSE Some(RequiredColumns[CHOOSE k \in missing : \A m \in missing : k <= m])

RaiseMissing ==
    /\ pc = "validate"
    /\ FirstMissing(columns) # None
    /\ error' = FirstMissing(columns)
    /\ pc' = "raised"
    /\ UNCHANGED <<i, prev_date, today_close, allocation, trace, left,
                   tqqq_open, tqqq_close>>
    /\ UNCHANGED frame
    /\ UNCHANGED inst

(* a variant that starts every call from the state of __init__ *)
StartLoopReset ==
    /\ pc = "validate"
    /\ FirstMissing(columns) = None
    /\ allocation' = [k \in 1..Len(index_list) |-> [a \in trading_assets |-> 0]]
    /\ prev_date' = None
    /\ i' = 0
    /\ trace' = <<>>
    /\ pc' = "loop"
    /\ in_position' = FALSE
    /\ entry_price' = None
    /\ entry_date' = None
    /\ entry_week' = None
    /\ exit_next_open_pending' = FALSE
    /\ exit_eod_pending' = FALSE
    /\ UNCHANGED <<error, today_close, left, tqqq_open, tqqq_close>>
    /\ UNCHANGED frame

(* lines 66-71 *)
StartLoop ==
    /\ pc = "validate"
    /\ FirstMissing(columns) = None
    /\ allocation' = [k \in 1..n |-> ZeroRow]
    /\ prev_date' = None
    /\ i' = 0
    /\ trace' = <<>>
    /\ pc' = "loop"
    /\ UNCHANGED <<error, today_close, left, tqqq_open, tqqq_close>>
    /\ UNCHANGED frame
    /\ UNCHANGED inst

-----------------------------------------------------------------------------
(* The loop body, lines 73-128: one action per branch *)
InLoop == pc = "loop" /\ i < n

(* the state __init__ leaves, lines 32-37 *)
FreshState ==
    [in_position |-> FALSE, entry_price |-> None, entry_date |-> None,
     entry_week |-> None, exit_next_open_pending |-> FALSE,
     exit_eod_pending |-> FALSE]

(* a variant whose warm-up window is one day short *)
IsWarmupShort(k) == k < WARMUP - 1

(* line 74 *)
IsWarmup(k) == k < WARMUP

Day == InLoop /\ ~IsWarmup(i)

(* line 96 *)
ReadClose(c) ==
    /\ tqqq_close' = [tqqq_close EXCEPT ![i + 1] = Some(c)]
    /\ today_close' = Some(c)

(* the branches that do not reach line 96 *)
CloseNotRead == UNCHANGED <<tqqq_close, today_close>>

(* line 110 *)
NextDate == IF i + 1 < n THEN Some(index_list[i + 2]) ELSE None

(* line 78, and lines 101, 106, 113, 115, 124 *)
(* a variant that zeroes every row up to the day's *)
RowsZeroedThrough ==
    [k \in 1..Len(allocation) |-> IF k <= i + 1 THEN ZeroRow ELSE allocation[k]]

RowZeroed == [allocation EXCEPT ![i + 1] = ZeroRow]

(* a variant that writes the whole row *)
RowAllLong == [allocation EXCEPT ![i + 1] = [a \in trading_assets |-> 1]]

RowLong == [allocation EXCEPT ![i + 1] = [ZeroRow EXCEPT !["TQQQ"] = 1]]

(* line 128 and the loop's increment *)
Advance(branch) ==
    /\ prev_date' = Some(date)
    /\ i' = i + 1
    /\ trace' = Append(trace, [pre |-> State, branch |-> branch])
    /\ UNCHANGED <<pc, error, left>>
    /\ UNCHANGED frame

(* a variant that leaves entry_week behind *)
EntryClearedButWeek ==
    /\ in_position' = FALSE
    /\ entry_price' = None
    /\ entry_date' = None
    /\ UNCHANGED entry_week

(* lines 82-86 and 89-93 *)
EntryCleared ==
    /\ in_position' = FALSE
    /\ entry_price' = None
    /\ entry_date' = None
    /\ entry_week' = None

(* lines 74-76 *)
Warmup ==
    /\ InLoop
    /\ IsWarmup(i)
    /\ Advance("warmup")
    /\ CloseNotRead
    /\ UNCHANGED <<allocation, tqqq_open>>
    /\ UNCHANGED inst

(* a variant that forgets line 83 *)
ConsumeNextOpenFlagKept ==
    /\ InLoop /\ ~IsWarmup(i)
    /\ exit_next_open_pending
    /\ allocation' = RowZeroed
    /\ EntryCleared
    /\ Advance("consume_next_open")
    /\ CloseNotRead
    /\ UNCHANGED <<exit_next_open_pending, exit_eod_pending, tqqq_open>>

(* lines 81-86 *)
ConsumeNextOpen ==
    /\ Day
    /\ exit_next_open_pending
    /\ allocation' = RowZeroed
    /\ EntryCleared
    /\ exit_next_open_pending' = FALSE
    /\ Advance("consume_next_open")
    /\ CloseNotRead
    /\ UNCHANGED <<exit_eod_pending, tqqq_open>>

(* lines 88-93 *)
ConsumeEod ==
    /\ Day
    /\ ~exit_next_open_pending
    /\ exit_eod_pending
    /\ allocation' = RowZeroed
    /\ EntryCleared
    /\ exit_eod_pending' = FALSE
    /\ Advance("consume_eod")
    /\ CloseNotRead
    /\ UNCHANGED <<exit_next_open_pending, tqqq_open>>

(* line 95 is reached with neither flag set *)
Held == Day /\ ~exit_next_open_pending /\ ~exit_eod_pending /\ in_position

(* lines 99-101 *)
TakeProfitExit ==
    /\ Held
    /\ \E c \in Closes :
          /\ ReadClose(c)
          /\ TakeProfit(c, Val(entry_price))
    /\ exit_next_open_pending' = TRUE
    /\ allocation' = RowLong
    /\ Advance("take_profit")
    /\ UNCHANGED <<in_position, entry_price, entry_date, entry_week,
                   exit_eod_pending, tqqq_open>>

(* a variant that writes the break-even day as flat *)
BreakEvenExitFlatRow ==
    /\ Held
    /\ \E c \in Closes :
          /\ ReadClose(c)
          /\ ~TakeProfit(c, Val(entry_price))
          /\ BreakEven(c, Val(entry_price))
    /\ exit_next_open_pending' = TRUE
    /\ allocation' = RowZeroed
    /\ Advance("break_even")
    /\ UNCHANGED <<in_position, entry_price, entry_date, entry_week,
                   exit_eod_pending, tqqq_open>>

(* lines 104-106 *)
BreakEvenExit ==
    /\ Held
    /\ \E c \in Closes :
          /\ ReadClose(c)
          /\ ~TakeProfit(c, Val(entry_price))
          /\ BreakEven(c, Val(entry_price))
    /\ exit_next_open_pending' = TRUE
    /\ allocation' = RowLong
    /\ Advance("break_even")
    /\ UNCHANGED <<in_position, entry_price, entry_date, entry_week,
                   exit_eod_pending, tqqq_open>>

(* a variant that tests the week's end before Type A and Type C *)
WeekEndExitFirst ==
    /\ Held
    /\ \E c \in Closes : ReadClose(c)
    /\ _weekly_last_trading_day(date, NextDate)
    /\ exit_eod_pending' = TRUE
    /\ allocation' = RowLong
    /\ Advance("week_end")
    /\ UNCHANGED <<in_position, entry_price, entry_date, entry_week,
                   exit_next_open_pending, tqqq_open>>

(* lines 108-113 *)
WeekEndExit ==
    /\ Held
    /\ \E c \in Closes :
          /\ ReadClose(c)
          /\ ~TakeProfit(c, Val(entry_price))
          /\ ~BreakEven(c, Val(entry_price))
    /\ _weekly_last_trading_day(date, NextDate)
    /\ exit_eod_pending' = TRUE
    /\ allocation' = RowLong
    /\ Advance("week_end")
    /\ UNCHANGED <<in_position, entry_price, entry_date, entry_week,
                   exit_next_open_pending, tqqq_open>>

(* lines 114-115 *)
Hold ==
    /\ Held
    /\ \E c \in Closes :
          /\ ReadClose(c)
          /\ ~TakeProfit(c, Val(entry_price))
          /\ ~BreakEven(c, Val(entry_price))
    /\ ~_weekly_last_trading_day(date, NextDate)
    /\ allocation' = RowLong
    /\ Advance("hold")
    /\ UNCHANGED <<tqqq_open>>
    /\ UNCHANGED inst

(* line 117 is reached flat with neither flag set *)
Idle == Day /\ ~exit_next_open_pending /\ ~exit_eod_pending /\ ~in_position

(* a variant that applies the week-end test on the entry day too *)
EnterThenWeekEnd ==
    /\ Day /\ ~exit_next_open_pending /\ ~exit_eod_pending /\ ~in_position
    /\ _is_new_week(prev_date, date)
    /\ in_position' = TRUE
    /\ \E o \in Opens :
          /\ tqqq_open' = [tqqq_open EXCEPT ![i + 1] = Some(o)]
          /\ entry_price' = Some(o)
    /\ entry_date' = Some(date)
    /\ entry_week' = Some(YearWeek(date))
    /\ exit_eod_pending' = _weekly_last_trading_day(date, NextDate)
    /\ allocation' = RowLong
    /\ Advance("enter")
    /\ CloseNotRead
    /\ UNCHANGED <<exit_next_open_pending>>

(* a variant that forgets line 123 *)
EnterWithoutWeek ==
    /\ Day /\ ~exit_next_open_pending /\ ~exit_eod_pending /\ ~in_position
    /\ _is_new_week(prev_date, date)
    /\ in_position' = TRUE
    /\ \E o \in Opens :
          /\ tqqq_open' = [tqqq_open EXCEPT ![i + 1] = Some(o)]
          /\ entry_price' = Some(o)
    /\ entry_date' = Some(date)
    /\ allocation' = RowLong
    /\ Advance("enter")
    /\ CloseNotRead
    /\ UNCHANGED <<entry_week, exit_next_open_pending, exit_eod_pending>>

(* lines 118-124 *)
Enter ==
    /\ Idle
    /\ _is_new_week(prev_date, date)
    /\ in_position' = TRUE
    /\ \E o \in Opens :
          /\ tqqq_open' = [tqqq_open EXCEPT ![i + 1] = Some(o)]
          /\ entry_price' = Some(o)
    /\ entry_date' = Some(date)
    /\ entry_week' = Some(YearWeek(date))
    /\ allocation' = RowLong
    /\ Advance("enter")
    /\ CloseNotRead
    /\ UNCHANGED <<exit_next_open_pending, exit_eod_pending>>

(* lines 125-126 *)
StayFlat ==
    /\ Idle
    /\ ~_is_new_week(prev_date, date)
    /\ allocation' = RowZeroed
    /\ Advance("stay_flat")
    /\ CloseNotRead
    /\ UNCHANGED <<tqqq_open>>
    /\ UNCHANGED inst

(* line 130 *)
Return ==
    /\ pc = "loop"
    /\ i = n
    /\ pc' = "done"
    /\ left' = Append(left, State)
    /\ UNCHANGED <<i, prev_date, today_close, allocation, error, trace,
                   tqqq_open, tqqq_close>>
    /\ UNCHANGED frame
    /\ UNCHANGED inst

Next ==
    \/ run_strategy
    \/ RaiseMissing
    \/ StartLoop
    \/ Warmup
    \/ ConsumeNextOpen
    \/ ConsumeEod
    \/ TakeProfitExit
    \/ BreakEvenExit
    \/ WeekEndExit
    \/ Hold
    \/ Enter
    \/ StayFlat
    \/ Return

Spec == Init /\ [][Next]_vars

-----------------------------------------------------------------------------
(* Several calls on one instance.  run_strategy assigns none of the state  *)
(* attributes before the loop (lines 57-71), so a call made after a return *)
(* or a raised KeyError starts from whatever the instance holds.           *)
ReuseCalendars ==
    {BusinessDays(f, WARMUP + k) : f \in FirstDates, k \in 0..MaxReuseDays}

run_strategy_again ==
    /\ pc \in {"idle", "done", "raised"}
    /\ Len(left) < MaxRuns
    /\ \E cols \in SUBSET Required, cal \in ReuseCalendars :
          /\ columns' = cols
          /\ index_list' = cal
          /\ tqqq_open' = [k \in 1..Len(cal) |-> None]
          /\ tqqq_close' = [k \in 1..Len(cal) |-> None]
    /\ error' = None
    /\ pc' = "validate"
    /\ UNCHANGED <<i, prev_date, today_close, allocation, trace, left>>
    /\ UNCHANGED inst

NextReuse ==
    \/ run_strategy_again
    \/ RaiseMissing
    \/ StartLoop
    \/ Warmup
    \/ ConsumeNextOpen
    \/ ConsumeEod
    \/ TakeProfitExit
    \/ BreakEvenExit
    \/ WeekEndExit
    \/ Hold
    \/ Enter
    \/ StayFlat
    \/ Return

SpecReuse == Init /\ [][NextReuse]_vars

-----------------------------------------------------------------------------
(* The Type A test of line 99 on its own: it is reached Long, with the     *)
(* day's close in today_close, and goes to line 100 or to line 103.        *)
InitTypeA ==
    /\ pc = "line99"
    /\ columns = Required
    /\ index_list = <<>>
    /\ tqqq_open = <<>>
    /\ tqqq_close = <<>>
    /\ i = 0
    /\ prev_date = None
    /\ today_close \in {Some(c) : c \in 0..MaxPrice}
    /\ allocation = <<>>
    /\ error = None
    /\ in_position = TRUE
    /\ entry_price \in {Some(e) : e \in 0..MaxPrice}
    /\ entry_date = None
    /\ entry_week = None
    /\ exit_next_open_pending = FALSE
    /\ exit_eod_pending = FALSE
    /\ trace = <<>>
    /\ left = <<>>

TypeATest ==
    /\ pc = "line99"
    /\ pc' = IF TakeProfit(Val(today_close), Val(entry_price))
             THEN "line100" ELSE "line103"
    /\ UNCHANGED <<columns, index_list, tqqq_open, tqqq_close, i, prev_date,
                   today_close, allocation, error, trace, left>>
    /\ UNCHANGED inst

SpecTypeA == InitTypeA /\ [][TypeATest]_vars

-----------------------------------------------------------------------------
(* Reading the history of a run.  Day k is the code's 0-based position.     *)
Processed == 0..(Len(trace) - 1)
Traded == {k \in Processed : k >= WARMUP}
Pre(k) == trace[k + 1].pre
Post(k) == IF k + 1 < Len(trace) THEN trace[k + 2].pre ELSE State
Weight(k) == allocation[k + 1]["TQQQ"]
NoFlag(st) == ~st.exit_next_open_pending /\ ~st.exit_eod_pending
Flagged(st) == st.exit_next_open_pending \/ st.exit_eod_pending

(* the values the frame may hold in row k of Close: the value read, or any *)
(* value when no branch has read the cell                                  *)
MayClose(k) == IF tqqq_close[k + 1] = None THEN Closes ELSE {Val(tqqq_close[k + 1])}

NewWeekDay(k) == k >= 1 /\ YearWeek(index_list[k + 1]) # YearWeek(index_list[k])

-----------------------------------------------------------------------------
(* C1, as stated: on every traded day k whose successor has been processed, *)
(* Long entering day k with close >= entry_price * 1.07 gives weight 1 on   *)
(* day k, weight 0 on day k+1 and Flat after day k+1.                       *)
C1_TakeProfitWheneverLong ==
    \A k \in Traded : \A c \in MayClose(k) :
        (k + 1 \in Processed /\ Pre(k).in_position
            /\ c * 100 >= Val(Pre(k).entry_price) * 107)
        => (Weight(k) = 1 /\ Weight(k + 1) = 0 /\ ~Post(k + 1).in_position)

(* C1, amended: the same, for a day entered Long with no pending exit flag. *)
C1_TakeProfitDeferred ==
    \A k \in Traded : \A c \in MayClose(k) :
        (k + 1 \in Processed /\ Pre(k).in_position /\ NoFlag(Pre(k))
            /\ c * 100 >= Val(Pre(k).entry_price) * 107)
        => (Weight(k) = 1 /\ Weight(k + 1) = 0 /\ ~Post(k + 1).in_position)

C1_Witness ==
    \E k \in Traded :
        /\ k + 1 \in Processed
        /\ Pre(k).in_position /\ NoFlag(Pre(k))
        /\ Pre(k).entry_price = Some(100)
        /\ tqqq_close[k + 1] = Some(107)
        /\ Weight(k) = 1 /\ Weight(k + 1) = 0 /\ ~Post(k + 1).in_position

-----------------------------------------------------------------------------
(* C2, as stated: a position entered at 100 on day e, the first of five     *)
(* trading days of its ISO week, with every later close of that week in    *)
(* [100, 107) and day e+5 opening a new ISO week, has weight 1 on each of   *)
(* the days e .. e+5.                                                       *)
C2_ContinuousAcrossWeekBoundary ==
    \A e \in Traded :
        (/\ e + 5 \in Processed
         /\ NewWeekDay(e)
         /\ ~Pre(e).in_position /\ Post(e).in_position
         /\ Post(e).entry_price = Some(100)
         /\ \A k \in (e + 1)..(e + 4) :
               /\ YearWeek(index_list[k + 1]) = YearWeek(index_list[e + 1])
               /\ \E c \in MayClose(k) : c >= 100 /\ c < 107
         /\ YearWeek(index_list[e + 6]) # YearWeek(index_list[e + 1]))
        => \A k \in e..(e + 5) : Weight(k) = 1

-----------------------------------------------------------------------------
(* C3: a day on which the state goes from Flat to Long has a preceding     *)
(* calendar day in another ISO (year, week); the entry price recorded is   *)
(* that day's Open and that day's weight is 1.                              *)
C3_EntryOnlyOnNewWeek ==
    \A k \in Processed :
        (~Pre(k).in_position /\ Post(k).in_position)
        => /\ NewWeekDay(k)
           /\ tqqq_open[k + 1] # None
           /\ Post(k).entry_price = tqqq_open[k + 1]
           /\ Weight(k) = 1

C3_Witness ==
    \E k \in Traded :
        /\ ~Pre(k).in_position /\ Post(k).in_position
        /\ NewWeekDay(k)
        /\ Post(k).entry_price = Some(100)
        /\ k + 1 \in Processed /\ ~NewWeekDay(k + 1)

-----------------------------------------------------------------------------
(* C4: a day entered with a pending exit flag ends Flat with the entry     *)
(* state cleared and both flags clear, reads neither price (no entry or    *)
(* exit test is made) and has weight 0 for every asset, also when it opens *)
(* a new ISO week.                                                          *)
C4_PendingFlagConsumed ==
    \A k \in Traded :
        Flagged(Pre(k))
        => /\ Post(k) = FreshState
           /\ allocation[k + 1] = ZeroRow
           /\ tqqq_open[k + 1] = None
           /\ tqqq_close[k + 1] = None
           /\ trace[k + 1].branch \in {"consume_next_open", "consume_eod"}

C4_Witness ==
    \E k \in Traded :
        /\ Flagged(Pre(k))
        /\ NewWeekDay(k)
        /\ k - 1 \in Traded /\ NoFlag(Pre(k - 1))
        /\ Post(k) = FreshState
        /\ allocation[k + 1] = ZeroRow

-----------------------------------------------------------------------------
(* C5, as stated: on the first trading day after ISO week W (the previous  *)
(* calendar day lies in W, the day does not), a position entered in W is   *)
(* not held: the day's weight is 0 or the entry_date held after it is the  *)
(* day itself.                                                              *)
C5_ClosedByNextWeek ==
    \A k \in Traded :
        (/\ Pre(k).in_position
         /\ Pre(k).entry_week = Some(YearWeek(index_list[k]))
         /\ YearWeek(index_list[k + 1]) # YearWeek(index_list[k]))
        => \/ Weight(k) = 0
           \/ Post(k).entry_date = Some(index_list[k + 1])

-----------------------------------------------------------------------------
(* C6: every row inside the warm-up window is 0 for every asset, and a     *)
(* warm-up day reads no price and leaves the position state and the flags  *)
(* as it found them.                                                        *)
C6_WarmupUntouched ==
    \A k \in 0..(Len(allocation) - 1) :
        k < WARMUP
        => /\ allocation[k + 1] = ZeroRow
           /\ k \in Processed
              => /\ Post(k) = Pre(k)
                 /\ Pre(k) = FreshState
                 /\ tqqq_open[k + 1] = None
                 /\ tqqq_close[k + 1] = None

C6_Witness ==
    /\ pc = "done"
    /\ Len(trace) > WARMUP
    /\ \E k \in Traded : Weight(k) = 1
    /\ NewWeekDay(WARMUP - 1)

-----------------------------------------------------------------------------
(* C7: Flat or Long, at most one pending flag, and a flag only while Long. *)
C7_FlagStateConsistent ==
    /\ in_position \in BOOLEAN
    /\ ~(exit_next_open_pending /\ exit_eod_pending)
    /\ (exit_next_open_pending \/ exit_eod_pending) => in_position
    /\ \A k \in Processed :
          /\ ~(Pre(k).exit_next_open_pending /\ Pre(k).exit_eod_pending)
          /\ Flagged(Pre(k)) => Pre(k).in_position

C7_Witness ==
    /\ pc = "loop"
    /\ i < n
    /\ in_position
    /\ exit_eod_pending
    /\ ~exit_next_open_pending

-----------------------------------------------------------------------------
(* C8: every TQQQ weight of the schedule is 0 or 1 and every SPY weight 0. *)
C8_WeightDomain ==
    \A k \in 1..Len(allocation) :
        /\ allocation[k]["TQQQ"] \in {0, 1}
        /\ allocation[k]["SPY"] = 0

C8_Witness ==
    /\ pc = "done"
    /\ \E k \in 1..Len(allocation) : allocation[k]["TQQQ"] = 1
    /\ \E k \in Traded : allocation[k + 1]["TQQQ"] = 0

-----------------------------------------------------------------------------
(* C9: once run_strategy has looked at a frame that lacks a required       *)
(* column, the call has raised, the error names a missing (field, ticker), *)
(* no schedule exists, no day has been processed and the position state    *)
(* and flags are those of the call; and the call raises in no other case.  *)
C9_FailFast ==
    /\ (pc \in {"raised", "loop", "done"} /\ ~(Required \subseteq columns))
       => /\ pc = "raised"
          /\ error # None
          /\ Val(error) \in Required \ columns
          /\ allocation = <<>>
          /\ trace = <<>>
          /\ i = 0
          /\ State = FreshState
    /\ pc = "raised" => ~(Required \subseteq columns)

C9_Witness ==
    /\ pc = "raised"
    /\ columns = Required \ {<<"Close", "SPY">>}
    /\ error = Some(<<"Close", "SPY">>)

-----------------------------------------------------------------------------
(* Day k as the claims describe it *)
CloseRead(k) == tqqq_close[k + 1] # None
CloseOf(k) == Val(tqqq_close[k + 1])
EntryOf(k) == Val(Pre(k).entry_price)
HeldInto(k) == Pre(k).in_position /\ NoFlag(Pre(k))
ProfitTaken(k) == CloseOf(k) * 100 >= EntryOf(k) * 107
BelowEntry(k) == CloseOf(k) < EntryOf(k)
LastOfWeek(k) ==
    \/ k + 1 = Len(index_list)
    \/ YearWeek(index_list[k + 1]) # YearWeek(index_list[k + 2])
Entered(k) == ~Pre(k).in_position /\ Post(k).in_position

-----------------------------------------------------------------------------
(* C11, as stated, on the one timing convention the code has: Long         *)
(* entering day k with the close of day k-1 >= entry_price * 1.07 gives    *)
(* weight 0 on day k and Flat after day k.                                  *)
C11_PriorCloseExit ==
    \A k \in Traded : \A c \in MayClose(k - 1) :
        (Pre(k).in_position /\ c * 100 >= EntryOf(k) * 107)
        => (Weight(k) = 0 /\ ~Post(k).in_position)

-----------------------------------------------------------------------------
(* C12: a day entered Long with no flag whose close fails the take-profit  *)
(* test and is below the entry price sets the next-open flag with weight   *)
(* 1; and when take-profit or break-even fires on the last trading day of  *)
(* a week, the flag set is the next-open flag and not the end-of-day flag. *)
C12_BreakEvenAndPrecedence ==
    \A k \in Traded :
        HeldInto(k)
        => /\ CloseRead(k)
           /\ (~ProfitTaken(k) /\ BelowEntry(k))
              => /\ Post(k).exit_next_open_pending
                 /\ Weight(k) = 1
           /\ ((ProfitTaken(k) \/ BelowEntry(k)) /\ LastOfWeek(k))
              => /\ Post(k).exit_next_open_pending
                 /\ ~Post(k).exit_eod_pending

C12_Witness ==
    \E k \in Traded :
          /\ HeldInto(k) /\ CloseRead(k)
          /\ BelowEntry(k) /\ LastOfWeek(k)
          /\ k + 1 < Len(index_list)
          /\ Post(k).exit_next_open_pending /\ ~Post(k).exit_eod_pending
          /\ Weight(k) = 1

-----------------------------------------------------------------------------
(* C13: a day entered Long with no flag on which neither take-profit nor   *)
(* break-even fires has weight 1 and stays Long; the end-of-day flag is    *)
(* set exactly when the day is the last trading day of its ISO week (the   *)
(* next calendar day is in another week, or there is none), and the        *)
(* next-open flag is not set.                                               *)
C13_WeekEndUnwind ==
    \A k \in Traded :
        (HeldInto(k) /\ CloseRead(k) /\ ~ProfitTaken(k) /\ ~BelowEntry(k))
        => /\ Weight(k) = 1
           /\ Post(k).in_position
           /\ ~Post(k).exit_next_open_pending
           /\ Post(k).exit_eod_pending <=> LastOfWeek(k)

C13_Witness ==
    /\ pc = "done"
    /\ \E k \in Traded :
          /\ HeldInto(k) /\ CloseRead(k) /\ ~ProfitTaken(k) /\ ~BelowEntry(k)
          /\ ~LastOfWeek(k)
          /\ NoFlag(Post(k))
    /\ \E k \in Traded :
          /\ HeldInto(k) /\ CloseRead(k) /\ ~ProfitTaken(k) /\ ~BelowEntry(k)
          /\ k + 1 = Len(index_list)
          /\ Post(k).exit_eod_pending

-----------------------------------------------------------------------------
(* C14: on every traded day the TQQQ weight is 1 exactly when in_position  *)
(* is true after the day.                                                   *)
C14_AllocationMirrorsPosition ==
    \A k \in Traded : Weight(k) = 1 <=> Post(k).in_position

C14_Witness ==
    /\ \E k \in Traded : Flagged(Pre(k)) /\ Weight(k) = 0 /\ ~Post(k).in_position
    /\ \E k \in Traded :
          /\ HeldInto(k) /\ CloseRead(k) /\ BelowEntry(k)
          /\ Weight(k) = 1 /\ Post(k).in_position

-----------------------------------------------------------------------------
-----------------------------------------------------------------------------
(* C16, as stated: while Long the held entry_price is strictly positive.   *)
C16_EntryPricePositive ==
    in_position => (entry_price # None /\ Val(entry_price) > 0)

-----------------------------------------------------------------------------
(* C17: in_position is false exactly when entry_price, entry_date and      *)
(* entry_week are all unset, and true only when all three are set; a day   *)
(* that changes any of the three is either an entry (all unset to all set, *)
(* Flat to Long) or the consumption of a pending flag (all set to all      *)
(* unset, Long to Flat).                                                    *)
AllSet(st) == st.entry_price # None /\ st.entry_date # None /\ st.entry_week # None
AllUnset(st) == st.entry_price = None /\ st.entry_date = None /\ st.entry_week = None
EntryFields(st) == <<st.entry_price, st.entry_date, st.entry_week>>

C17_EntryStateWhileLong ==
    /\ in_position => AllSet(State)
    /\ ~in_position => AllUnset(State)
    /\ \A k \in Processed :
          EntryFields(Pre(k)) # EntryFields(Post(k))
          => \/ /\ AllUnset(Pre(k)) /\ AllSet(Post(k))
                /\ Entered(k) /\ NoFlag(Pre(k))
             \/ /\ AllSet(Pre(k)) /\ AllUnset(Post(k))
                /\ Flagged(Pre(k)) /\ Pre(k).in_position /\ ~Post(k).in_position

C17_Witness ==
    /\ ~in_position /\ AllUnset(State)
    /\ \E k \in Traded : Entered(k) /\ AllSet(Post(k))
    /\ \E k \in Traded : Flagged(Pre(k)) /\ AllUnset(Post(k))

-----------------------------------------------------------------------------
(* C18: a step of the loop moves to the next day and changes no row of the *)
(* schedule other than the day's own.                                       *)
C18_RowsNeverRevisited ==
    [][InLoop
       => /\ i' = i + 1
          /\ Len(allocation') = Len(allocation)
          /\ \A j \in 1..Len(allocation) :
                j # i + 1 => allocation'[j] = allocation[j]]_vars

C18_Witness ==
    /\ pc = "done"
    /\ \E j \in Traded :
          /\ j + 2 \in Traded
          /\ Weight(j) = 1 /\ Weight(j + 2) = 0

-----------------------------------------------------------------------------
(* The state a call starts from: what the previous returned call left, or  *)
(* the state of __init__ when no call has returned.                         *)
StartState == IF left = <<>> THEN FreshState ELSE left[Len(left)]

BeforeFirstTradedDay ==
    \/ pc \in {"validate", "raised"}
    \/ pc = "loop" /\ i <= WARMUP

-----------------------------------------------------------------------------
(* C20: for closes and entry prices >= 0 the test of line 99 goes to line  *)
(* 100 exactly when close >= entry_price * 1.07.                            *)
C20_TakeProfitCollapses ==
    pc \in {"line100", "line103"}
    => (pc = "line100" <=> Val(today_close) * 100 >= Val(entry_price) * 107)

C20_Witness ==
    /\ pc = "line100"
    /\ today_close = Some(107)
    /\ entry_price = Some(100)

====
